---- MODULE Spec2Model ----
(***************************************************************************)
(* A model of the scp1 client of scp.py (class SCPClient): the put, putfo  *)
(* and getfo operations, the acknowledgement handshake, the send-side     *)
(* directory walk and the receive-side record loop.                       *)
(*                                                                         *)
(* Bytes and characters are one-character strings; the bytes 0x00 and     *)
(* 0x01 are written "NUL" and "SOH", the newline "LF".  A byte string is a *)
(* sequence of such characters.                                            *)
(***************************************************************************)
EXTENDS Integers, Sequences, FiniteSets, TLC

(***************************************************************************)
(* Bounds of the model.                                                    *)
(***************************************************************************)
MaxOps == 2
MaxSize == 2
MaxRecs == 2
MaxUnder == 2
MaxProg == 4

(***************************************************************************)
(* Byte-string helpers (Python bytes/str methods and os.path on posix).    *)
(***************************************************************************)
NUL == "NUL"
SOH == "SOH"
LF == "LF"
SP == " "
SEP == "/"

DigitChars == <<"0", "1", "2", "3", "4", "5", "6", "7", "8", "9">>

RECURSIVE Digits(_, _)
\* the digits of n in the given base, most significant first (at least one)
Digits(n, base) ==
    IF n < base THEN <<DigitChars[n + 1]>>
    ELSE Digits(n \div base, base) \o <<DigitChars[(n % base) + 1]>>

RECURSIVE PadLeft(_, _)
PadLeft(s, width) ==
    IF Len(s) >= width THEN s ELSE PadLeft(<<"0">> \o s, width)

\* f"{n:d}"
FormatDec(n) == Digits(n, 10)

\* f"{n:04o}": octal, zero-padded to a MINIMUM width of four
FormatOct04(n) == PadLeft(Digits(n, 8), 4)

DigitValue(c) == CHOOSE d \in 0..9 : DigitChars[d + 1] = c

IsDigitIn(c, base) == \E d \in 0..(base - 1) : DigitChars[d + 1] = c

RECURSIVE DigitsValue(_, _)
DigitsValue(s, base) ==
    IF s = <<>> THEN 0
    ELSE DigitsValue(SubSeq(s, 1, Len(s) - 1), base) * base + DigitValue(s[Len(s)])

\* int(s, base) on a string of digits; ok = FALSE where Python raises ValueError
ParseInt(s, base) ==
    IF s # <<>> /\ \A i \in 1..Len(s) : IsDigitIn(s[i], base)
    THEN [ok |-> TRUE, val |-> DigitsValue(s, base)]
    ELSE [ok |-> FALSE, val |-> 0]

IndexOf(s, c) ==
    IF \E i \in 1..Len(s) : s[i] = c
    THEN CHOOSE i \in 1..Len(s) : s[i] = c /\ \A j \in 1..(i - 1) : s[j] # c
    ELSE 0

LastIndexOf(s, c) ==
    IF \E i \in 1..Len(s) : s[i] = c
    THEN CHOOSE i \in 1..Len(s) : s[i] = c /\ \A j \in (i + 1)..Len(s) : s[j] # c
    ELSE 0

RECURSIVE SplitMax(_, _, _)
\* s.split(c, maxsplit): a sequence of byte strings
SplitMax(s, c, maxsplit) ==
    LET i == IndexOf(s, c)
    IN  IF maxsplit = 0 \/ i = 0 THEN <<s>>
        ELSE <<SubSeq(s, 1, i - 1)>> \o SplitMax(SubSeq(s, i + 1, Len(s)), c, maxsplit - 1)

IsSpace(c) == c \in {SP, LF}

RECURSIVE LStrip(_)
LStrip(s) == IF s # <<>> /\ IsSpace(s[1]) THEN LStrip(Tail(s)) ELSE s

RECURSIVE RStrip(_)
RStrip(s) ==
    IF s # <<>> /\ IsSpace(s[Len(s)]) THEN RStrip(SubSeq(s, 1, Len(s) - 1)) ELSE s

\* s.strip()
Strip(s) == LStrip(RStrip(s))

RECURSIVE RStripSep(_)
\* s.rstrip(b"/")
RStripSep(s) ==
    IF s # <<>> /\ s[Len(s)] = SEP THEN RStripSep(SubSeq(s, 1, Len(s) - 1)) ELSE s

EndsWithSep(s) == s # <<>> /\ s[Len(s)] = SEP

\* os.path.split(p)[0] (= os.path.dirname(p))
PathHead(p) ==
    LET i == LastIndexOf(p, SEP)
        head == SubSeq(p, 1, i)
    IN  IF head # <<>> /\ RStripSep(head) # <<>> THEN RStripSep(head) ELSE head

\* os.path.basename(p)
Basename(p) == SubSeq(p, LastIndexOf(p, SEP) + 1, Len(p))

\* os.path.join(a, b)
PathJoin(a, b) ==
    IF b # <<>> /\ b[1] = SEP THEN b
    ELSE IF a = <<>> \/ EndsWithSep(a) THEN a \o b
    ELSE a \o <<SEP>> \o b

RECURSIVE CommonPrefix(_, _)
\* os.path.commonprefix([a, b]): character by character
CommonPrefix(a, b) ==
    IF a # <<>> /\ b # <<>> /\ a[1] = b[1]
    THEN <<a[1]>> \o CommonPrefix(Tail(a), Tail(b))
    ELSE <<>>


RECURSIVE ReplaceChar(_, _, _)
\* s.replace(c, by) for a single character c
ReplaceChar(s, c, by) ==
    IF s = <<>> THEN <<>>
    ELSE (IF s[1] = c THEN by ELSE <<s[1]>>) \o ReplaceChar(Tail(s), c, by)

(***************************************************************************)
(* Module-level helpers of scp.py.                                         *)
(***************************************************************************)
SCP_COMMAND == <<"s", "c", "p">>

\* the characters _find_unsafe does not match: [\w@%+=:,./~-]
SafeChars ==
    {DigitChars[i] : i \in 1..10} \cup
    {"a", "b", "c", "d", "f", "g", "r", "s", "x", "_", ".", "/", "-", "~"}

QUOTE == "'"

ShQuote(s) ==
    IF s = <<>> THEN <<>>
    ELSE IF \A i \in 1..Len(s) : s[i] \in SafeChars THEN s
    ELSE <<QUOTE>> \o ReplaceChar(s, QUOTE, <<QUOTE, "\"", QUOTE, "\"", QUOTE>>)
         \o <<QUOTE>>

\* repr of a bytes object, which is what an f-string makes of it: b'...'
BytesRepr(s) == <<"b", QUOTE>> \o s \o <<QUOTE>>

\* name.replace("\n", "\\^J")
EscapeNewline(s) == ReplaceChar(s, LF, <<"\\", "^", "J">>)

(***************************************************************************)
(* The local filesystem the caller's paths name (os.stat, os.path.isdir,   *)
(* os.walk, open): the inputs of put.                                      *)
(***************************************************************************)
S_IFREG == 32768
S_IFDIR == 16384

FileEntry(path, ty, size, flen) ==
    [path |-> path, ty |-> ty, isdir |-> FALSE, perm |-> 420,
     size |-> size, flen |-> flen, mtime |-> 10, atime |-> 20]

DirEntry(path) ==
    [path |-> path, ty |-> "bytes", isdir |-> TRUE, perm |-> 493,
     size |-> 0, flen |-> 0, mtime |-> 30, atime |-> 40]

\* stats.st_mode of an entry: the file-type bits and the permission bits
StMode(e) == (IF e.isdir THEN S_IFDIR ELSE S_IFREG) + e.perm

\* the directories below a root, as lists of names, in depth-first pre-order
TreeDirs == << <<>>, << <<"a", "b">> >>, << <<"a", "b">>, <<"c">> >>, << <<"a", "c">> >> >>

\* the sets of positions of TreeDirs that form a tree
Trees ==
    {t \in SUBSET (1..Len(TreeDirs)) :
        /\ 1 \in t
        /\ \A i \in t : \A j \in 1..Len(TreeDirs) :
              (/\ Len(TreeDirs[j]) < Len(TreeDirs[i])
               /\ TreeDirs[j] = SubSeq(TreeDirs[i], 1, Len(TreeDirs[j]))) => j \in t}

RECURSIVE JoinAll(_, _)
JoinAll(base, names) ==
    IF names = <<>> THEN base ELSE JoinAll(PathJoin(base, Head(names)), Tail(names))

RECURSIVE WalkFrom(_, _, _, _)
\* what os.walk(base) yields for tree t: (root, files) for each directory of
\* the tree from position i on, in pre-order; withFile puts one file f in the
\* directory at position withFile
WalkFrom(base, t, withFile, i) ==
    IF i > Len(TreeDirs) THEN <<>>
    ELSE (IF i \in t
          THEN << [root |-> JoinAll(base, TreeDirs[i]),
                   fls |-> IF i = withFile THEN << <<"f">> >> ELSE <<>>] >>
          ELSE <<>>) \o WalkFrom(base, t, withFile, i + 1)

OsWalk(base, t, withFile) == WalkFrom(base, t, withFile, 1)

DirArg(base, t, withFile) == [e |-> DirEntry(base), walk |-> OsWalk(base, t, withFile)]

FileArg(path, ty, size, flen) == [e |-> FileEntry(path, ty, size, flen), walk |-> <<>>]

\* the directory arguments of put: trees of empty directories under a plain
\* base, under a base with a trailing separator and under the filesystem
\* root, and two trees that hold a file
DirArgs ==
    {DirArg(<<"d">>, t, 0) : t \in Trees} \cup
    {DirArg(<<"d", "/">>, {1, 2, 4}, 0), DirArg(<<"/">>, {1, 2}, 0)} \cup
    {DirArg(<<"d">>, t, 1) : t \in {{1}, {1, 2}}}

\* the plain-file arguments of put: the stat size of each and the bytes the
\* opened stream really holds (one fewer when the file shrank meanwhile)
FileArgs ==
    {FileArg(<<"f">>, "str", sz, sz) : sz \in 0..MaxSize} \cup
    {FileArg(<<"f">>, "str", sz, sz - 1) : sz \in 1..MaxSize} \cup
    {FileArg(<<"f">>, "bytes", 0, 0), FileArg(<<"d", "/", "g">>, "str", 1, 1)}

\* the files argument of put: one path or two
PutFileLists ==
    {<<a>> : a \in FileArgs \cup DirArgs} \cup
    {<<FileArg(<<"f">>, "str", 0, 0), FileArg(<<"f">>, "str", 1, 1)>>,
     <<DirArg(<<"d">>, {1, 2}, 0), DirArg(<<"d">>, {1}, 0)>>,
     <<FileArg(<<"f">>, "str", 0, 0), DirArg(<<"d">>, {1}, 0)>>}

QuotedPath == <<"r", " ", QUOTE>>

\* the calls of put
PutCalls ==
    {[op |-> "put", files |-> fl, remote_path |-> <<".">>, recursive |-> r,
      preserve_times |-> p] : fl \in PutFileLists, r \in BOOLEAN, p \in BOOLEAN} \cup
    {[op |-> "put", files |-> <<FileArg(<<"f">>, "str", 0, 0)>>,
      remote_path |-> QuotedPath, recursive |-> r, preserve_times |-> p] :
        r \in BOOLEAN, p \in BOOLEAN}

\* the calls of putfo: a stream of flLen bytes at flPos, and size (-1 is None);
\* the last one is a stream read from its second byte on
PutfoCalls ==
    {c \in [op : {"putfo"}, flLen : 0..MaxSize, flPos : 0..MaxSize,
            remote_path : {<<"f">>}, size : {-1, 0, MaxSize}] :
        c.flPos <= c.flLen} \cup
    {[op |-> "putfo", flLen |-> MaxSize + 1, flPos |-> 1, remote_path |-> <<"f">>,
      size |-> -1]}

(***************************************************************************)
(* What the peer may answer where the sender awaits an acknowledgement:    *)
(* the bytes it writes to the channel, the bytes it writes to the stderr   *)
(* side-band, or nothing within the timeout.                               *)
(***************************************************************************)
AckOk == [out |-> <<NUL>>, err |-> <<>>, timeout |-> FALSE]
AckError == [out |-> <<SOH, "n", "o", LF>>, err |-> <<>>, timeout |-> FALSE]
AckEof == [out |-> <<>>, err |-> <<>>, timeout |-> FALSE]
AckGarbage == [out |-> <<"x">>, err |-> <<>>, timeout |-> FALSE]
AckStderr == [out |-> <<>>, err |-> <<"s", "x">>, timeout |-> FALSE]
AckTimeout == [out |-> <<>>, err |-> <<>>, timeout |-> TRUE]

AckReplies == {AckOk, AckError, AckEof, AckGarbage, AckStderr, AckTimeout}

\* the times in use are below this
MaxTime == 41

\* stands for a read that raises socket.timeout instead of returning bytes
TIMEOUT == <<"timeout">>

\* channel.recv(n): at most n of the bytes the peer wrote
Recv(bytes, n) == SubSeq(bytes, 1, IF Len(bytes) < n THEN Len(bytes) ELSE n)

(***************************************************************************)
(* State.                                                                  *)
(***************************************************************************)
VARIABLES
    channel,         \* self.channel: 0 is None, else a position of chans
    chans,           \* the sessions the transport opened: [closed, execs]
    preserve_times,  \* self.preserve_times
    pushed,          \* self._pushed
    depth,           \* self._depth
    recv_dir,        \* self._recv_dir
    utime,           \* self._utime: <<>> is None, else <<atime, mtime>>
    dirtimes,        \* what _recv_pushd put in self._dirtimes for the record in
                     \* hand (<<>>: nothing); the client only ever writes that
                     \* dictionary, so no more of it is kept
    files,           \* self._files
    has_progress,    \* whether self._progress is set
    buff_size,       \* self.buff_size
    pc,              \* the place in the code the running operation is at
    stack,           \* the places its callers resume at, innermost first
    args,            \* the arguments of the running operation, while it uses them
    snd,             \* locals of the send side
    rcv,             \* locals of the receive side
    wire,            \* the command and what the operation did on its channel, in
                     \* order; getfo keeps only the traffic of the record in hand
    peer,            \* the remote scp of a getfo: the directories it is in, the
                     \* file it sent last, and the files it is through with,
                     \* each with the status it sent after the body
    prog,            \* the calls of the progress callback, in order; getfo keeps
                     \* only those for the record in hand
    outcome,         \* how the last operation ended
    nops             \* operations started so far

vars ==
    <<channel, chans, preserve_times, pushed, depth, recv_dir, utime, dirtimes, files,
      has_progress, buff_size, pc, stack, args, snd, rcv, wire, peer, prog,
      outcome, nops>>

client == <<preserve_times, pushed, depth, recv_dir, utime, files>>
config == <<has_progress, buff_size>>

SndInit ==
    [baseIdx |-> 0, walkIdx |-> 0, last_dir |-> <<>>, cur_dir |-> <<>>,
     common |-> <<>>, to_dir |-> <<>>, sfList |-> <<>>, sfIdx |-> 0,
     flLen |-> 0, flPos |-> 0, name |-> <<>>, ty |-> "str", mode |-> <<>>,
     size |-> 0, file_pos |-> 0]

RcvInit ==
    [cmd |-> <<>>, mode |-> 0, size |-> 0, name |-> <<>>, path |-> <<>>,
     data |-> <<>>, pos |-> 0, buff_size |-> 0, nrecs |-> 0]

\* the values of buff_size the client is made with
BuffSizes == {1, 2}

NoArgs == [op |-> "none"]

PeerInit ==
    [dirs |-> <<>>, file |-> [dirs |-> <<>>, name |-> <<>>, mode |-> 0, data |-> <<>>],
     done |-> <<>>]

Init ==
    /\ channel = 0
    /\ chans = <<>>
    /\ preserve_times = FALSE
    /\ pushed = 0
    /\ depth = 0
    /\ recv_dir = <<>>
    /\ utime = <<>>
    /\ dirtimes = <<>>
    /\ files = <<>>
    /\ has_progress \in BOOLEAN
    /\ buff_size \in BuffSizes
    /\ pc = "idle"
    /\ stack = <<>>
    /\ args = NoArgs
    /\ snd = SndInit
    /\ rcv = RcvInit
    /\ wire = <<>>
    /\ peer = PeerInit
    /\ prog = <<>>
    /\ outcome = [kind |-> "none", msg |-> <<>>]
    /\ nops = 0

(***************************************************************************)
(* The channel.                                                            *)
(***************************************************************************)
ChannelUsable == channel # 0 /\ ~chans[channel].closed

\* _open: the channel the operation runs on, a new session unless the client
\* holds one that is not closed
OpenChannel == IF ChannelUsable THEN channel ELSE Len(chans) + 1

\* the sessions after _open and exec_command on the channel it returned
ChansAfterExec ==
    IF ChannelUsable
    THEN [chans EXCEPT ![channel].execs = @ + 1]
    ELSE Append(chans, [closed |-> FALSE, execs |-> 1])

\* channel.close() on session c
ChansClosed(c) == [chans EXCEPT ![c].closed = TRUE]

\* an empty read means the peer sent EOF; it may have closed the channel too
ChansAfterRead(data, peerClosed) ==
    IF data = <<>> /\ peerClosed THEN ChansClosed(channel) ELSE chans

Wrote(kind, data) == [op |-> "send", kind |-> kind, data |-> data]
Read(kind, data) == [op |-> "recv", kind |-> kind, data |-> data]
Timeout(kind) == [op |-> "timeout", kind |-> kind, data |-> <<>>]

(***************************************************************************)
(* Ending an operation.                                                    *)
(***************************************************************************)
\* an exception leaves the operation: nothing on the way out catches it, and
\* the locals are gone
Raise(kind, msg) ==
    /\ pc' = "returned"
    /\ stack' = <<>>
    /\ snd' = SndInit
    /\ rcv' = RcvInit
    /\ outcome' = [kind |-> kind, msg |-> msg]

\* a call of f from the place pc, resuming at ret
Call(f, ret) ==
    /\ pc' = f
    /\ stack' = <<ret>> \o stack

\* return to the innermost caller
Return ==
    /\ pc' = Head(stack)
    /\ stack' = Tail(stack)

\* self.close()
Close ==
    /\ chans' = IF channel # 0 THEN ChansClosed(channel) ELSE chans
    /\ channel' = 0

StartOp(a) ==
    /\ pc = "idle"
    /\ nops < MaxOps
    /\ nops' = nops + 1
    /\ args' = a
    /\ prog' = <<>>
    /\ outcome' = [kind |-> "running", msg |-> <<>>]
    /\ snd' = SndInit
    /\ rcv' = RcvInit
    /\ peer' = PeerInit

(***************************************************************************)
(* put and putfo.                                                          *)
(***************************************************************************)
\* the command line put issues
PutCommand(recursive, preserve, remote_path) ==
    SCP_COMMAND \o <<" ">>
    \o (IF recursive THEN <<"-", "r", " ", "-", "t", " ">> ELSE <<"-", "t", " ">>)
    \o ShQuote(remote_path)

PutfoCommand(remote_path) ==
    SCP_COMMAND \o <<" ", "-", "v", " ", "-", "t", " ">> \o ShQuote(remote_path)

\* put, up to its first _recv_confirm
Put(a) ==
    /\ StartOp(a)
    /\ preserve_times' = a.preserve_times
    /\ channel' = OpenChannel
    /\ chans' = ChansAfterExec
    /\ pushed' = 0
    /\ wire' = <<[op |-> "exec", kind |-> "put",
                  data |-> PutCommand(a.recursive, a.preserve_times, a.remote_path)]>>
    /\ pc' = "recv_confirm"
    /\ stack' = <<"put_files">>
    /\ UNCHANGED <<depth, recv_dir, dirtimes, utime, files, config>>

\* putfo, up to its first _recv_confirm
Putfo(a) ==
    /\ StartOp(a)
    /\ channel' = OpenChannel
    /\ chans' = ChansAfterExec
    /\ wire' = <<[op |-> "exec", kind |-> "putfo", data |-> PutfoCommand(a.remote_path)]>>
    /\ pc' = "recv_confirm"
    /\ stack' = <<"putfo_send">>
    /\ UNCHANGED <<client, dirtimes, config>>

\* _recv_confirm as it would be if only an unreadable reply were an error: a
\* faulty variant, against which the acknowledgement discipline is tested
ConfirmResultLax(msg, r) ==
    IF msg = <<NUL>> \/ msg = <<SOH>> THEN [ok |-> TRUE, text |-> <<>>]
    ELSE IF r.err # <<>> THEN [ok |-> FALSE, text |-> r.err]
    ELSE IF msg = <<>> THEN [ok |-> FALSE, text |-> <<"No response from server">>]
    ELSE [ok |-> FALSE, text |-> <<"Invalid response from server">>]

\* what _recv_confirm makes of the byte it read: "ok" to return, else the
\* message of the SCPException it raises
ConfirmResult(msg, r) ==
    IF msg = <<NUL>> THEN [ok |-> TRUE, text |-> <<>>]
    ELSE IF msg = <<SOH>> THEN [ok |-> FALSE, text |-> Tail(msg)]
    ELSE IF r.err # <<>> THEN [ok |-> FALSE, text |-> r.err]
    ELSE IF msg = <<>> THEN [ok |-> FALSE, text |-> <<"No response from server">>]
    ELSE [ok |-> FALSE, text |-> <<"Invalid response from server">>]

\* _recv_confirm
RecvConfirm ==
    /\ pc = "recv_confirm"
    /\ \E r \in AckReplies, peerClosed \in BOOLEAN :
          IF r.timeout
          THEN /\ ~peerClosed
               /\ wire' = Append(wire, Timeout("ack"))
               /\ Raise("SCPException", <<"Timeout waiting for scp response">>)
               /\ UNCHANGED chans
          ELSE LET msg == Recv(r.out, 1)
                   res == ConfirmResult(msg, r)
               IN  /\ (peerClosed => msg = <<>>)
                   /\ wire' = Append(wire, Read("ack", msg))
                   /\ chans' = ChansAfterRead(msg, peerClosed)
                   /\ IF res.ok
                      THEN Return /\ UNCHANGED <<snd, rcv, outcome>>
                      ELSE Raise("SCPException", res.text)
    /\ UNCHANGED <<channel, client, dirtimes, config, args, prog, nops, peer>>

\* put after the command was acknowledged: the files are sent
PutFiles ==
    /\ pc = "put_files"
    /\ IF args.recursive
       THEN /\ snd' = [snd EXCEPT !.baseIdx = 1]
            /\ pc' = "send_recursive"
       ELSE /\ snd' = [snd EXCEPT !.sfList = [i \in 1..Len(args.files) |-> args.files[i].e],
                                  !.sfIdx = 1]
            /\ pc' = "send_files"
    /\ stack' = <<"put_close">>
    /\ UNCHANGED <<channel, chans, client, dirtimes, config, args, rcv, wire, prog, outcome, nops, peer>>

\* the end of put: self.close()
PutClose ==
    /\ pc = "put_close"
    /\ Close
    /\ pc' = "returned"
    /\ stack' = <<>>
    /\ snd' = SndInit
    /\ outcome' = [kind |-> "ok", msg |-> <<>>]
    /\ UNCHANGED <<client, dirtimes, config, args, rcv, wire, prog, nops, peer>>

\* putfo after the command was acknowledged: _send_file on the stream
PutfoSend ==
    /\ pc = "putfo_send"
    /\ snd' = [snd EXCEPT !.flLen = args.flLen, !.flPos = args.flPos,
                          !.name = args.remote_path, !.ty = "str",
                          !.mode = <<"0", "6", "4", "4">>,
                          !.size = IF args.size = -1
                                   THEN args.flLen - args.flPos
                                   ELSE args.size]
    /\ Call("send_file", "putfo_close")
    /\ UNCHANGED <<channel, chans, client, dirtimes, config, args, rcv, wire, prog, outcome, nops, peer>>

\* the end of putfo: self.close()
PutfoClose ==
    /\ pc = "putfo_close"
    /\ Close
    /\ pc' = "returned"
    /\ stack' = <<>>
    /\ snd' = SndInit
    /\ outcome' = [kind |-> "ok", msg |-> <<>>]
    /\ UNCHANGED <<client, dirtimes, config, args, rcv, wire, prog, nops, peer>>

(***************************************************************************)
(* The send side: records and file bodies.                                 *)
(***************************************************************************)
\* _read_stats: the mode string and the numbers scp needs
ReadStats(e) ==
    [mode |-> FormatOct04(StMode(e)), size |-> e.size,
     mtime |-> e.mtime, atime |-> e.atime]

\* the line _send_time writes
TimeLine(mtime, atime) ==
    <<"T">> \o FormatDec(mtime) \o <<" ", "0", " ">> \o FormatDec(atime)
    \o <<" ", "0", LF>>

\* the line _send_file writes
FileLine(mode, size, basename) ==
    <<"C">> \o mode \o <<" ">> \o FormatDec(size) \o <<" ">> \o basename \o <<LF>>

\* the line _send_pushd writes: basename is a bytes object in the f-string
DirLine(mode, basename) ==
    <<"D">> \o mode \o <<" ", "0", " ">> \o BytesRepr(basename) \o <<LF>>

PopLine == <<"E", LF>>

\* the bytes a read of n bytes of the local file yields
DataBytes(n) == [i \in 1..n |-> "b"]

\* a call of the progress callback, if the client has one
Progress(name, total, done) ==
    IF has_progress
    THEN Append(prog, [name |-> name, total |-> total, done |-> done,
                       at |-> Len(wire)])
    ELSE prog

\* the first progress call without the case for size 0: a faulty variant,
\* against which the zero-byte progress property is tested
ProgressStartPlain(name, size) == Progress(name, size, 0)

\* the calls of the progress callback before the body of a file of this size
ProgressStart(name, size) ==
    IF size = 0 THEN Progress(name, 1, 1) ELSE Progress(name, size, 0)

\* _send_files: the head of its loop, up to _send_time's _recv_confirm
SendFiles ==
    /\ pc = "send_files"
    /\ IF snd.sfIdx > Len(snd.sfList)
       THEN /\ Return
            /\ snd' = [snd EXCEPT !.sfList = <<>>, !.sfIdx = 0]
            /\ UNCHANGED wire
       ELSE LET st == ReadStats(snd.sfList[snd.sfIdx])
            IN  /\ snd' = snd
                /\ IF preserve_times
                   THEN /\ wire' = Append(wire, Wrote("T", TimeLine(st.mtime, st.atime)))
                        /\ Call("recv_confirm", "send_files_open")
                   ELSE /\ pc' = "send_files_open"
                        /\ UNCHANGED <<wire, stack>>
    /\ UNCHANGED <<channel, chans, client, dirtimes, config, args, rcv, prog, outcome, nops, peer>>

\* _send_files: open(name, "rb") and the call of _send_file
SendFilesOpen ==
    /\ pc = "send_files_open"
    /\ LET e == snd.sfList[snd.sfIdx]
           st == ReadStats(e)
       IN  IF e.isdir
           THEN Raise("IsADirectoryError", <<>>)
           ELSE /\ snd' = [snd EXCEPT !.flLen = e.flen, !.flPos = 0,
                                      !.name = e.path, !.ty = e.ty,
                                      !.mode = st.mode, !.size = st.size]
                /\ Call("send_file", "send_files_next")
                /\ UNCHANGED <<rcv, outcome>>
    /\ UNCHANGED <<channel, chans, client, dirtimes, config, args, wire, prog, nops, peer>>

\* _send_files: fl.close() and the next file
SendFilesNext ==
    /\ pc = "send_files_next"
    /\ snd' = [snd EXCEPT !.sfIdx = @ + 1, !.flLen = 0, !.flPos = 0,
                          !.name = <<>>, !.ty = "str", !.mode = <<>>,
                          !.size = 0, !.file_pos = 0]
    /\ pc' = "send_files"
    /\ UNCHANGED <<channel, chans, client, dirtimes, config, stack, args, rcv, wire, prog,
                   outcome, nops, peer>>

\* _send_file, up to the _recv_confirm of its header; str.replace on a bytes
\* name raises TypeError
SendFile ==
    /\ pc = "send_file"
    /\ IF snd.ty = "bytes"
       THEN /\ Raise("TypeError", <<>>)
            /\ UNCHANGED wire
       ELSE /\ wire' = Append(wire, Wrote("C",
                          FileLine(snd.mode, snd.size, EscapeNewline(Basename(snd.name)))))
            /\ Call("recv_confirm", "send_body_start")
            /\ UNCHANGED <<snd, rcv, outcome>>
    /\ UNCHANGED <<channel, chans, client, dirtimes, config, args, prog, nops, peer>>

\* _send_file after its header was acknowledged: the first progress call
SendBodyStart ==
    /\ pc = "send_body_start"
    /\ snd' = [snd EXCEPT !.file_pos = 0]
    /\ prog' = ProgressStart(EscapeNewline(Basename(snd.name)), snd.size)
    /\ pc' = "send_body"
    /\ UNCHANGED <<channel, chans, client, dirtimes, config, stack, args, rcv, wire, outcome, nops, peer>>

\* the bytes fl.read(n) returns from a stream of len bytes at pos
ReadLen(len, pos, n) ==
    IF len - pos <= 0 THEN 0 ELSE IF len - pos < n THEN len - pos ELSE n

\* _send_file: one turn of the body loop, or the terminator after it
SendBody ==
    /\ pc = "send_body"
    /\ IF snd.file_pos < snd.size
       THEN LET n == ReadLen(snd.flLen, snd.flPos, buff_size)
                tell == snd.flPos + n
            IN  /\ (n = 0 /\ has_progress) => Len(prog) < MaxProg
                /\ wire' = IF n = 0 THEN wire
                           ELSE Append(wire, Wrote("body", DataBytes(n)))
                /\ snd' = [snd EXCEPT !.flPos = tell, !.file_pos = tell]
                /\ prog' = Progress(EscapeNewline(Basename(snd.name)), snd.size, tell)
                /\ UNCHANGED <<pc, stack>>
       ELSE /\ wire' = Append(wire, Wrote("nul", <<NUL>>))
            /\ pc' = "recv_confirm"
            /\ snd' = [snd EXCEPT !.file_pos = 0]
            /\ UNCHANGED <<stack, prog>>
    /\ UNCHANGED <<channel, chans, client, dirtimes, config, args, rcv, outcome, nops, peer>>

(***************************************************************************)
(* The send side: the directory walk.                                      *)
(***************************************************************************)
\* _send_recursive: the head of its loop over the roots
SendRecursive ==
    /\ pc = "send_recursive"
    /\ IF snd.baseIdx > Len(args.files)
       THEN /\ Return
            /\ snd' = SndInit
       ELSE LET a == args.files[snd.baseIdx]
            IN  IF ~a.e.isdir
                THEN /\ snd' = [snd EXCEPT !.sfList = <<[a.e EXCEPT !.ty = "bytes"]>>,
                                           !.sfIdx = 1]
                     /\ Call("send_files", "send_recursive_next")
                ELSE /\ snd' = [snd EXCEPT !.last_dir = a.e.path, !.walkIdx = 1]
                     /\ pc' = "walk"
                     /\ UNCHANGED stack
    /\ UNCHANGED <<channel, chans, client, dirtimes, config, args, rcv, wire, prog, outcome, nops, peer>>

\* _send_recursive: the next root
SendRecursiveNext ==
    /\ pc = "send_recursive_next"
    /\ snd' = [SndInit EXCEPT !.baseIdx = snd.baseIdx + 1]
    /\ pc' = "send_recursive"
    /\ UNCHANGED <<channel, chans, client, dirtimes, config, stack, args, rcv, wire, prog,
                   outcome, nops, peer>>

\* the common base directory _chdir pops back to
ChdirCommon(from_dir, to_dir) ==
    PathHead(CommonPrefix(from_dir \o <<SEP>>, to_dir \o <<SEP>>))

\* where _chdir starts popping from
ChdirStart(from_dir) == RStripSep(from_dir)

\* _send_recursive: the head of its loop over os.walk, and the start of _chdir
Walk ==
    /\ pc = "walk"
    /\ LET w == args.files[snd.baseIdx].walk
       IN  IF snd.walkIdx > Len(w)
           THEN /\ pc' = "backout"
                /\ snd' = snd
           ELSE LET root == w[snd.walkIdx].root
                IN  IF ~EndsWithSep(root)
                    THEN /\ snd' = [snd EXCEPT
                                      !.common = ChdirCommon(snd.last_dir, root),
                                      !.cur_dir = ChdirStart(snd.last_dir),
                                      !.to_dir = root]
                         /\ pc' = "chdir"
                    ELSE /\ snd' = snd
                         /\ pc' = "walk_files"
    /\ UNCHANGED <<channel, chans, client, dirtimes, config, stack, args, rcv, wire, prog,
                   outcome, nops, peer>>

\* _chdir: one turn of its pop loop, or the push after it
Chdir ==
    /\ pc = "chdir"
    /\ IF snd.cur_dir # snd.common
       THEN /\ pushed > -MaxUnder
            /\ snd' = [snd EXCEPT !.cur_dir = PathHead(snd.cur_dir)]
            /\ Call("send_popd", "chdir")
       ELSE /\ snd' = [snd EXCEPT !.cur_dir = <<>>, !.common = <<>>]
            /\ Call("send_pushd", "walk_files")
    /\ UNCHANGED <<channel, chans, client, dirtimes, config, args, rcv, wire, prog, outcome, nops, peer>>

\* _send_popd, up to its _recv_confirm
SendPopd ==
    /\ pc = "send_popd"
    /\ wire' = Append(wire, Wrote("E", PopLine))
    /\ Call("recv_confirm", "send_popd_done")
    /\ UNCHANGED <<channel, chans, client, dirtimes, config, args, snd, rcv, prog, outcome, nops, peer>>

\* the counter after an acknowledged pop
PushedAfterPop(n) == n - 1

\* _send_popd after the acknowledgement
SendPopdDone ==
    /\ pc = "send_popd_done"
    /\ pushed' = PushedAfterPop(pushed)
    /\ Return
    /\ UNCHANGED <<channel, chans, preserve_times, depth, recv_dir, dirtimes, utime, files,
                   config, args, snd, rcv, wire, prog, outcome, nops, peer>>

\* _send_pushd without its _send_time: a faulty variant, against which the
\* placement of T records is tested
SendPushdNoTime ==
    /\ pc = "send_pushd"
    /\ pc' = "send_pushd_dir"
    /\ UNCHANGED <<channel, chans, client, dirtimes, config, stack, args, snd, rcv, wire, prog,
                   outcome, nops, peer>>

\* _send_pushd, up to _send_time's _recv_confirm
SendPushd ==
    /\ pc = "send_pushd"
    /\ LET st == ReadStats(DirEntry(snd.to_dir))
       IN  IF preserve_times
           THEN /\ wire' = Append(wire, Wrote("T", TimeLine(st.mtime, st.atime)))
                /\ Call("recv_confirm", "send_pushd_dir")
           ELSE /\ pc' = "send_pushd_dir"
                /\ UNCHANGED <<wire, stack>>
    /\ UNCHANGED <<channel, chans, client, dirtimes, config, args, snd, rcv, prog, outcome, nops, peer>>

\* _send_pushd: the D record, up to its _recv_confirm
SendPushdDir ==
    /\ pc = "send_pushd_dir"
    /\ LET st == ReadStats(DirEntry(snd.to_dir))
       IN  wire' = Append(wire, Wrote("D",
                      DirLine(st.mode, EscapeNewline(Basename(snd.to_dir)))))
    /\ Call("recv_confirm", "send_pushd_done")
    /\ UNCHANGED <<channel, chans, client, dirtimes, config, args, snd, rcv, prog, outcome, nops, peer>>

\* the counter after an acknowledged push
PushedAfterPush(n) == n + 1

\* _send_pushd after the acknowledgement
SendPushdDone ==
    /\ pc = "send_pushd_done"
    /\ pushed' = PushedAfterPush(pushed)
    /\ Return
    /\ UNCHANGED <<channel, chans, preserve_times, depth, recv_dir, dirtimes, utime, files,
                   config, args, snd, rcv, wire, prog, outcome, nops, peer>>

\* _send_recursive: _send_files on the files of the directory walked
WalkFiles ==
    /\ pc = "walk_files"
    /\ LET d == args.files[snd.baseIdx].walk[snd.walkIdx]
       IN  snd' = [snd EXCEPT
                     !.sfList = [i \in 1..Len(d.fls) |->
                                   FileEntry(PathJoin(d.root, d.fls[i]), "bytes", 1, 1)],
                     !.sfIdx = 1, !.to_dir = <<>>]
    /\ Call("send_files", "walk_next")
    /\ UNCHANGED <<channel, chans, client, dirtimes, config, args, rcv, wire, prog, outcome, nops, peer>>

\* _send_recursive: last_dir is the directory walked, and the next one
WalkNext ==
    /\ pc = "walk_next"
    /\ snd' = [snd EXCEPT
                 !.last_dir = args.files[snd.baseIdx].walk[snd.walkIdx].root,
                 !.walkIdx = @ + 1]
    /\ pc' = "walk"
    /\ UNCHANGED <<channel, chans, client, dirtimes, config, stack, args, rcv, wire, prog,
                   outcome, nops, peer>>

\* _send_recursive: back out of the directory once the walk is over
Backout ==
    /\ pc = "backout"
    /\ IF pushed > 0
       THEN Call("send_popd", "backout")
       ELSE /\ pc' = "send_recursive_next"
            /\ UNCHANGED stack
    /\ UNCHANGED <<channel, chans, client, dirtimes, config, args, snd, rcv, wire, prog,
                   outcome, nops, peer>>


(***************************************************************************)
(* getfo and the receive side.                                             *)
(***************************************************************************)
\* the command line getfo issues
GetfoCommand(recursive, preserve, remote_path) ==
    SCP_COMMAND \o (IF recursive THEN <<" ", "-", "r">> ELSE <<>>)
    \o (IF preserve THEN <<" ", "-", "p">> ELSE <<>>)
    \o <<" ", "-", "f", " ">> \o ShQuote(remote_path)

GetfoCalls ==
    {[op |-> "getfo", remote_path |-> <<".">>, recursive |-> b, preserve_times |-> b] :
        b \in BOOLEAN}

\* the records the remote scp may send: what each is, and its line
PeerDir(name) ==
    [tag |-> "D", name |-> name, mode |-> 493, size |-> 0,
     line |-> <<"D", "0", "7", "5", "5", " ", "0", " ">> \o name \o <<LF>>]
PeerFile(name, size) ==
    [tag |-> "C", name |-> name, mode |-> 420, size |-> size,
     line |-> <<"C", "0", "6", "4", "4", " ">> \o FormatDec(size) \o <<" ">>
              \o name \o <<LF>>]
PeerPop ==
    [tag |-> "E", name |-> <<>>, mode |-> 0, size |-> 0, line |-> <<"E", LF>>]
PeerTime ==
    [tag |-> "T", name |-> <<>>, mode |-> 0, size |-> 0,
     line |-> <<"T", "1", "0", " ", "0", " ", "2", "0", " ", "0", LF>>]
\* a second T record with other times, which the remote scp is taken to send
\* only where the client still holds a time; it is not counted among the
\* records of the call, since it leaves nothing behind but the time it replaces
PeerTimeAgain ==
    [tag |-> "T", name |-> <<>>, mode |-> 0, size |-> 0,
     line |-> <<"T", "1", "1", " ", "0", " ", "2", "1", " ", "0", LF>>]

\* other things it may write instead of a record (the empty one is EOF)
PeerOther(line) == [tag |-> "", name |-> <<>>, mode |-> 0, size |-> 0, line |-> line]
PeerBadTime == PeerOther(<<"T", "x", LF>>)
PeerBadFile == PeerOther(<<"C", "9", " ", "0", " ", "x", LF>>)
PeerBadDir == PeerOther(<<"D", "0", "7", "5", "5", LF>>)
PeerError == PeerOther(<<SOH, "n", "o", LF>>)
PeerNoNewline == PeerOther(<<"E">>)
PeerEof == PeerOther(<<>>)
PeerSilent == PeerOther(TIMEOUT)

\* the messages that let the receive loop go on, and those that end it
PeerRecords ==
    {PeerDir(<<"s">>), PeerFile(<<"x">>, 0), PeerFile(<<"x">>, MaxSize), PeerPop,
     PeerTime, PeerTimeAgain}
PeerLast ==
    {PeerBadTime, PeerBadFile, PeerBadDir, PeerError, PeerNoNewline, PeerEof,
     PeerSilent}

\* the remote scp after it sent record r
PeerAfter(r) ==
    IF r.tag = "D" THEN [peer EXCEPT !.dirs = Append(@, r.name)]
    ELSE IF r.tag = "E" /\ peer.dirs # <<>>
    THEN [peer EXCEPT !.dirs = SubSeq(@, 1, Len(@) - 1)]
    ELSE IF r.tag = "C"
    THEN [peer EXCEPT !.file = [dirs |-> peer.dirs, name |-> r.name,
                                mode |-> r.mode, data |-> <<>>]]
    ELSE peer

BodyBytes == {"a"}

\* the chunks a read of at most n body bytes may return
Chunks(n) == UNION {[1..k -> BodyBytes] : k \in 1..n}

\* getfo, up to the receive loop
Getfo(a) ==
    /\ StartOp(a)
    /\ files' = <<>>
    /\ depth' = 0
    /\ channel' = OpenChannel
    /\ chans' = ChansAfterExec
    /\ pushed' = 0
    /\ wire' = <<[op |-> "exec", kind |-> "getfo",
                  data |-> GetfoCommand(a.recursive, a.preserve_times, a.remote_path)]>>
    /\ pc' = "recv_all"
    /\ stack' = <<"getfo_close">>
    /\ UNCHANGED <<preserve_times, recv_dir, dirtimes, utime, config>>

\* the end of getfo: self.close(), and self._files is returned
GetfoClose ==
    /\ pc = "getfo_close"
    /\ Close
    /\ pc' = "returned"
    /\ stack' = <<>>
    /\ rcv' = RcvInit
    /\ outcome' = [kind |-> "ok", msg |-> <<>>]
    /\ UNCHANGED <<client, dirtimes, config, args, snd, wire, prog, nops, peer>>

\* the handler _recv_all dispatches a record code to ("" when it has none)
Handler(code) ==
    IF code = <<"C">> THEN "recv_file"
    ELSE IF code = <<"T">> THEN "set_time"
    ELSE IF code = <<"D">> THEN "recv_pushd"
    ELSE IF code = <<"E">> THEN "recv_popd"
    ELSE ""

\* the remote scp ended its stream where the client awaited a file's status:
\* every later read is empty too
PeerEnded == peer.done # <<>> /\ peer.done[Len(peer.done)].status = <<>>

\* _recv_all: one turn of its loop, up to the call of the record's handler
RecvAll ==
    /\ pc = "recv_all"
    /\ IF chans[channel].closed
       THEN /\ Return
            /\ UNCHANGED <<chans, rcv, snd, wire, peer, prog, outcome>>
       ELSE \E r \in PeerRecords \cup PeerLast, peerClosed \in BOOLEAN :
              LET ready == <<Wrote("ready", <<NUL>>)>>
                  m == r.line
              IN  /\ prog' = <<>>
                  /\ IF m = TIMEOUT
                     THEN /\ ~peerClosed /\ ~PeerEnded
                          /\ wire' = Append(ready, Timeout("cmd"))
                          /\ Raise("socket.timeout", <<>>)
                          /\ UNCHANGED <<chans, peer>>
                     ELSE /\ (peerClosed \/ PeerEnded => m = <<>>)
                          /\ (r \in PeerRecords \ {PeerTimeAgain} => rcv.nrecs < MaxRecs)
                          /\ (r = PeerTimeAgain => utime # <<>>)
                          /\ wire' = Append(ready, Read("cmd", m))
                          /\ chans' = ChansAfterRead(m, peerClosed)
                          /\ peer' = PeerAfter(r)
                          /\ IF m = <<>>
                             THEN Return /\ UNCHANGED <<rcv, snd, outcome>>
                             ELSE IF m[Len(m)] # LF
                             THEN Raise("AssertionError", <<>>)
                             ELSE LET msg == SubSeq(m, 1, Len(m) - 1)
                                      code == SubSeq(msg, 1, 1)
                                  IN  IF Handler(code) = ""
                                      THEN Raise("SCPException", SubSeq(msg, 2, Len(msg)))
                                      ELSE /\ rcv' = [rcv EXCEPT
                                                        !.cmd = SubSeq(msg, 2, Len(msg)),
                                                        !.nrecs = IF r = PeerTimeAgain
                                                                  THEN @ ELSE @ + 1]
                                           /\ Call(Handler(code), "recv_all")
                                           /\ UNCHANGED <<snd, outcome>>
    /\ args' = NoArgs
    /\ dirtimes' = <<>>
    /\ UNCHANGED <<channel, client, config, nops>>

\* what _set_time parses from a T record
ParseTime(cmd) ==
    LET times == SplitMax(cmd, SP, Len(cmd))
        mtime == ParseInt(times[1], 10)
        atime == IF Len(times) >= 3 THEN ParseInt(times[3], 10) ELSE [ok |-> FALSE, val |-> 0]
    IN  [ok |-> mtime.ok /\ atime.ok,
         mtime |-> mtime.val,
         atime |-> IF atime.val # 0 THEN atime.val ELSE mtime.val]

\* _set_time
SetTime ==
    /\ pc = "set_time"
    /\ LET t == ParseTime(rcv.cmd)
       IN  IF ~t.ok
           THEN /\ wire' = Append(wire, Wrote("nak", <<SOH>>))
                /\ Raise("SCPException", <<"Bad time format">>)
                /\ UNCHANGED utime
           ELSE /\ utime' = <<t.atime, t.mtime>>
                /\ Return
                /\ rcv' = [rcv EXCEPT !.cmd = <<>>]
                /\ UNCHANGED <<wire, snd, outcome>>
    /\ UNCHANGED <<channel, chans, preserve_times, pushed, depth, recv_dir, dirtimes, files,
                   config, args, prog, nops, peer>>

\* what _recv_file parses from a C record
ParseFile(cmd, dir) ==
    LET parts == SplitMax(Strip(cmd), SP, 2)
        mode == ParseInt(parts[1], 8)
        size == IF Len(parts) >= 2 THEN ParseInt(parts[2], 10) ELSE [ok |-> FALSE, val |-> 0]
    IN  IF mode.ok /\ size.ok /\ Len(parts) >= 3
        THEN [ok |-> TRUE, mode |-> mode.val, size |-> size.val, name |-> parts[3],
              path |-> PathJoin(dir, parts[3])]
        ELSE [ok |-> FALSE, mode |-> 0, size |-> 0, name |-> <<>>, path |-> <<>>]

\* _recv_file, up to the first read of the body
RecvFile ==
    /\ pc = "recv_file"
    /\ LET f == ParseFile(rcv.cmd, recv_dir)
       IN  IF ~f.ok
           THEN /\ wire' = Append(wire, Wrote("nak", <<SOH>>))
                /\ chans' = ChansClosed(channel)
                /\ Raise("SCPException", <<"Bad file format">>)
                /\ UNCHANGED prog
           ELSE /\ prog' = ProgressStart(f.name, f.size)
                /\ rcv' = [rcv EXCEPT !.cmd = <<>>, !.mode = f.mode, !.size = f.size,
                                      !.name = f.name, !.path = f.path,
                                      !.data = <<>>, !.pos = 0,
                                      !.buff_size = buff_size]
                /\ wire' = Append(wire, Wrote("ack", <<NUL>>))
                /\ pc' = "recv_body"
                /\ UNCHANGED <<chans, stack, snd, outcome>>
    /\ UNCHANGED <<channel, client, dirtimes, config, args, nops, peer>>

\* how many bytes _recv_file asks for next
RecvWant(size, pos, buff) == IF size - pos <= buff THEN size - pos ELSE buff

\* _recv_file: one turn of the body loop
RecvBody ==
    /\ pc = "recv_body"
    /\ rcv.pos < rcv.size
    /\ LET want == RecvWant(rcv.size, rcv.pos, rcv.buff_size)
       IN  \E d \in Chunks(want) \cup {<<>>, TIMEOUT}, peerClosed \in BOOLEAN :
             IF d = TIMEOUT
             THEN /\ ~peerClosed
                  /\ wire' = Append(wire, Timeout("body"))
                  /\ chans' = ChansClosed(channel)
                  /\ Raise("SCPException", <<"Error receiving, socket.timeout">>)
                  /\ UNCHANGED <<prog, peer>>
             ELSE /\ (peerClosed => d = <<>>)
                  /\ wire' = Append(wire, Read("body", d))
                  /\ chans' = ChansAfterRead(d, peerClosed)
                  /\ IF d = <<>>
                     THEN /\ Raise("SCPException", <<"Underlying channel was closed">>)
                          /\ UNCHANGED <<prog, peer>>
                     ELSE /\ peer' = [peer EXCEPT !.file.data = @ \o d]
                          /\ rcv' = [rcv EXCEPT !.buff_size = want,
                                                !.data = @ \o d,
                                                !.pos = Len(rcv.data) + Len(d)]
                          /\ prog' = Progress(rcv.name, rcv.size, Len(rcv.data) + Len(d))
                          /\ UNCHANGED <<pc, stack, snd, outcome>>
    /\ UNCHANGED <<channel, client, dirtimes, config, args, nops>>

\* the status messages the peer may send after a body
PeerStatus == {<<NUL>>, <<SOH, "n", "o", LF>>, <<>>}

\* the record appended without the time held: a faulty variant, against
\* which the use of the pending time is tested
FileRecordNoTime(r, time) ==
    [path |-> r.path, name |-> r.name, utime |-> <<>>, data |-> r.data, mode |-> r.mode]

\* the record _recv_file appends to self._files
FileRecord(r, time) ==
    [path |-> r.path, name |-> r.name, utime |-> time, data |-> r.data, mode |-> r.mode]

\* self._files with the record at its front: a faulty variant, against which
\* the order of the files returned is tested
FilesAfterFront(fs, r) == <<r>> \o fs

\* self._files.append(record)
FilesAfter(fs, r) == Append(fs, r)

\* the remote scp once the client is through with the file it sent
PeerThrough(status) ==
    [peer EXCEPT !.done = Append(@, [name |-> peer.file.name, data |-> peer.file.data,
                                     status |-> status])]

\* _recv_file after the body: the peer's status, and the file is appended
RecvFileEnd ==
    /\ pc = "recv_body"
    /\ rcv.pos >= rcv.size
    /\ \E m \in PeerStatus \cup {TIMEOUT}, peerClosed \in BOOLEAN :
          IF m = TIMEOUT
          THEN /\ ~peerClosed
               /\ wire' = Append(wire, Timeout("status"))
               /\ chans' = ChansClosed(channel)
               /\ Raise("SCPException", <<"Error receiving, socket.timeout">>)
               /\ UNCHANGED <<files, utime, peer>>
          ELSE /\ (peerClosed => m = <<>>)
               /\ wire' = Append(wire, Read("status", m))
               /\ chans' = ChansAfterRead(m, peerClosed)
               /\ IF m # <<>> /\ SubSeq(m, 1, 1) # <<NUL>>
                  THEN /\ Raise("SCPException", Tail(m))
                       /\ UNCHANGED <<files, utime, peer>>
                  ELSE /\ files' = FilesAfter(files, FileRecord(rcv, utime))
                       /\ peer' = PeerThrough(m)
                       /\ utime' = <<>>
                       /\ Return
                       /\ rcv' = [RcvInit EXCEPT !.nrecs = rcv.nrecs]
                       /\ UNCHANGED <<snd, outcome>>
    /\ UNCHANGED <<channel, preserve_times, pushed, depth, recv_dir, dirtimes, config, args,
                   prog, nops>>

\* self._dirtimes[path] = {"mode": mode, "utime": self._utime}
DirtimesEntry(path, mode, time) == [path |-> path, mode |-> mode, utime |-> time]

\* what _recv_pushd parses from a D record
ParseDir(cmd, dir) ==
    LET parts == SplitMax(cmd, SP, 2)
        mode == ParseInt(parts[1], 8)
    IN  IF mode.ok /\ Len(parts) >= 3
        THEN [ok |-> TRUE, mode |-> mode.val, name |-> parts[3],
              path |-> PathJoin(dir, parts[3])]
        ELSE [ok |-> FALSE, mode |-> 0, name |-> <<>>, path |-> <<>>]

\* _recv_pushd
RecvPushd ==
    /\ pc = "recv_pushd"
    /\ LET d == ParseDir(rcv.cmd, recv_dir)
       IN  IF ~d.ok
           THEN /\ wire' = Append(wire, Wrote("nak", <<SOH>>))
                /\ Raise("SCPException", <<"Bad directory format">>)
                /\ UNCHANGED <<depth, utime, dirtimes, recv_dir>>
           ELSE /\ depth' = depth + 1
                /\ dirtimes' = DirtimesEntry(d.path, d.mode, utime)
                /\ utime' = <<>>
                /\ recv_dir' = d.path
                /\ Return
                /\ rcv' = [rcv EXCEPT !.cmd = <<>>]
                /\ UNCHANGED <<wire, snd, outcome>>
    /\ UNCHANGED <<channel, chans, preserve_times, pushed, files, config, args,
                   prog, nops, peer>>

\* _recv_popd without its test of the depth: a faulty variant, against which
\* the depth property is tested
PopDepthUnguarded(d) == d - 1

\* the depth and the directory after _recv_popd
PopDepth(d) == IF d > 0 THEN d - 1 ELSE d
PopDir(d, dir) == IF d > 0 THEN PathHead(dir) ELSE dir

\* _recv_popd
RecvPopd ==
    /\ pc = "recv_popd"
    /\ depth' = PopDepth(depth)
    /\ recv_dir' = PopDir(depth, recv_dir)
    /\ Return
    /\ rcv' = [rcv EXCEPT !.cmd = <<>>]
    /\ UNCHANGED <<channel, chans, preserve_times, pushed, utime, dirtimes, files, config,
                   args, snd, wire, prog, outcome, nops, peer>>

(***************************************************************************)
(* The caller.                                                             *)
(***************************************************************************)
\* the call has returned or raised and the caller goes on: what was seen of
\* the call (its arguments, its channel traffic, its progress calls, the
\* directory it noted last, how it ended) is let go; the client keeps its
\* fields
CallerResumes ==
    /\ pc = "returned"
    /\ pc' = "idle"
    /\ args' = NoArgs
    /\ wire' = <<>>
    /\ prog' = <<>>
    /\ outcome' = [kind |-> "none", msg |-> <<>>]
    /\ dirtimes' = <<>>
    /\ UNCHANGED <<channel, chans, client, config, stack, snd, rcv, nops, peer>>

\* the receive fields are as __init__ left them
ReceiveUntouched == recv_dir = <<>> /\ utime = <<>> /\ files = <<>> /\ depth = 0

NextSend ==
    \/ \E a \in PutCalls : Put(a)
    \/ \E a \in PutfoCalls : Putfo(a)
    \/ RecvConfirm
    \/ PutFiles
    \/ PutClose
    \/ PutfoSend
    \/ PutfoClose
    \/ SendFiles
    \/ SendFilesOpen
    \/ SendFilesNext
    \/ SendFile
    \/ SendBodyStart
    \/ SendBody
    \/ SendRecursive
    \/ SendRecursiveNext
    \/ Walk
    \/ Chdir
    \/ SendPopd
    \/ SendPopdDone
    \/ SendPushd
    \/ SendPushdDir
    \/ SendPushdDone
    \/ WalkFiles
    \/ WalkNext
    \/ Backout
    \/ CallerResumes

NextRecv ==
    \/ \E a \in GetfoCalls : Getfo(a)
    \/ GetfoClose
    \/ RecvAll
    \/ SetTime
    \/ RecvFile
    \/ RecvBody
    \/ RecvFileEnd
    \/ RecvPushd
    \/ RecvPopd
    \/ CallerResumes

SpecSend == Init /\ [][NextSend]_vars
SpecRecv == Init /\ [][NextRecv]_vars

\* put and putfo run on: a turn of the body loop that changes anything, and
\* the read of an acknowledgement, are taken in the end
SpecSendLive == SpecSend /\ WF_vars(SendBody) /\ WF_vars(RecvConfirm)

\* getfo runs on: the next turn of the receive loop and the close after it
\* are taken in the end
SpecRecvLive == SpecRecv /\ WF_vars(RecvAll) /\ WF_vars(GetfoClose)

\* The caller goes from one operation to the next for as long as the receive
\* fields are as constructed: put and putfo read no field getfo writes but
\* self.channel, which getfo leaves as a failed put does, and what one getfo
\* leaves to the next is followed under SpecRecv.
Next ==
    \/ \E a \in PutCalls : ReceiveUntouched /\ Put(a)
    \/ \E a \in PutfoCalls : ReceiveUntouched /\ Putfo(a)
    \/ \E a \in GetfoCalls : ReceiveUntouched /\ Getfo(a)
    \/ RecvConfirm
    \/ PutFiles
    \/ PutClose
    \/ PutfoSend
    \/ PutfoClose
    \/ SendFiles
    \/ SendFilesOpen
    \/ SendFilesNext
    \/ SendFile
    \/ SendBodyStart
    \/ SendBody
    \/ SendRecursive
    \/ SendRecursiveNext
    \/ Walk
    \/ Chdir
    \/ SendPopd
    \/ SendPopdDone
    \/ SendPushd
    \/ SendPushdDir
    \/ SendPushdDone
    \/ WalkFiles
    \/ WalkNext
    \/ Backout
    \/ GetfoClose
    \/ RecvAll
    \/ SetTime
    \/ RecvFile
    \/ RecvBody
    \/ RecvFileEnd
    \/ RecvPushd
    \/ RecvPopd
    \/ CallerResumes

Spec == Init /\ [][Next]_vars

(***************************************************************************)
(* The record lines alone: a record is written as the send side writes it  *)
(* and the line is handed to the receive side's handler for its tag.       *)
(***************************************************************************)
\* the records tried: a T record, C records and D records with modes over
\* the permission bits, sizes, and names with and without blanks, and E
CodecRecord(tag, mode, size, mtime, atime, name) ==
    [op |-> "record", tag |-> tag, mode |-> mode, size |-> size, mtime |-> mtime,
     atime |-> atime, name |-> name]
CodecNames == {<<"x">>, <<"a", " ", "b">>, <<"x", " ">>}
CodecRecords ==
    {CodecRecord("T", 0, 0, m, a, <<>>) : m \in {0, 10}, a \in {0, 20}} \cup
    {CodecRecord("C", m, sz, 0, 0, n) : m \in {0, 420, 4095}, sz \in {0, MaxSize},
                                        n \in CodecNames} \cup
    {CodecRecord("D", m, 0, 0, 0, n) : m \in {0, 493, 4095}, n \in CodecNames} \cup
    {CodecRecord("E", 0, 0, 0, 0, <<>>)}

\* the line the send side writes for record r
EncodeLine(r) ==
    IF r.tag = "T" THEN TimeLine(r.mtime, r.atime)
    ELSE IF r.tag = "C"
    THEN FileLine(FormatOct04(r.mode), r.size, EscapeNewline(Basename(r.name)))
    ELSE IF r.tag = "D"
    THEN DirLine(FormatOct04(r.mode), EscapeNewline(Basename(r.name)))
    ELSE PopLine

\* the send side writes a record
Encode(r) ==
    /\ pc = "idle"
    /\ args = NoArgs
    /\ args' = r
    /\ wire' = <<Wrote(r.tag, EncodeLine(r))>>
    /\ pc' = "decode"
    /\ UNCHANGED <<channel, chans, client, dirtimes, config, stack, snd, rcv, peer, prog,
                   outcome, nops>>

\* the receive side takes the line as _recv_all does and its handler parses
\* it: the fields parsed are kept in rcv and utime
Decode ==
    /\ pc = "decode"
    /\ LET m == wire[1].data
           msg == SubSeq(m, 1, Len(m) - 1)
           code == SubSeq(msg, 1, 1)
           cmd == SubSeq(msg, 2, Len(msg))
           t == ParseTime(cmd)
           f == ParseFile(cmd, recv_dir)
           d == ParseDir(cmd, recv_dir)
       IN  IF Handler(code) = "set_time" /\ t.ok
           THEN /\ utime' = <<t.atime, t.mtime>>
                /\ pc' = "decoded"
                /\ UNCHANGED <<rcv, stack, snd, outcome>>
           ELSE IF Handler(code) = "recv_file" /\ f.ok
           THEN /\ rcv' = [rcv EXCEPT !.mode = f.mode, !.size = f.size, !.name = f.name]
                /\ pc' = "decoded"
                /\ UNCHANGED <<utime, stack, snd, outcome>>
           ELSE IF Handler(code) = "recv_pushd" /\ d.ok
           THEN /\ rcv' = [rcv EXCEPT !.mode = d.mode, !.name = d.name]
                /\ pc' = "decoded"
                /\ UNCHANGED <<utime, stack, snd, outcome>>
           ELSE IF Handler(code) = "recv_popd"
           THEN /\ pc' = "decoded"
                /\ UNCHANGED <<utime, rcv, stack, snd, outcome>>
           ELSE /\ Raise("SCPException", <<>>)
                /\ UNCHANGED utime
    /\ UNCHANGED <<channel, chans, preserve_times, pushed, depth, recv_dir, dirtimes, files,
                   config, args, wire, peer, prog, nops>>

\* the record is let go and another may be tried
CodecDone ==
    /\ pc = "decoded"
    /\ pc' = "idle"
    /\ args' = NoArgs
    /\ wire' = <<>>
    /\ rcv' = RcvInit
    /\ utime' = <<>>
    /\ UNCHANGED <<channel, chans, preserve_times, pushed, depth, recv_dir, dirtimes, files,
                   config, stack, snd, peer, prog, outcome, nops>>

NextCodec ==
    \/ \E r \in CodecRecords : Encode(r)
    \/ Decode
    \/ CodecDone

SpecCodec == Init /\ [][NextCodec]_vars

(***************************************************************************)
(* Properties.                                                             *)
(***************************************************************************)
\* what the running operation is, by the command it issued
Sending == wire # <<>> /\ wire[1].op = "exec" /\ wire[1].kind \in {"put", "putfo"}
Putting == wire # <<>> /\ wire[1].op = "exec" /\ wire[1].kind = "put"

\* entries of wire: a write that must be acknowledged, a good acknowledgement
NeedsAck(e) ==
    e.op = "exec" \/ (e.op = "send" /\ e.kind \in {"T", "C", "D", "E", "nul"})
GoodAck == Read("ack", <<NUL>>)

\* substring and prefix tests on byte strings
Contains(s, sub) ==
    \E i \in 1..(Len(s) - Len(sub) + 1) : SubSeq(s, i, i + Len(sub) - 1) = sub
StartsWith(s, pre) == Len(s) >= Len(pre) /\ SubSeq(s, 1, Len(pre)) = pre

\* the fields of a C or D line, by the parser of the receive side
HeaderFields(line) == SplitMax(SubSeq(line, 2, Len(line) - 1), SP, 2)

\* C1: during put and putfo every control record and every body terminator
\* written is followed by a read of one acknowledgement byte before anything
\* else is written, an acknowledgement is read only after such a write, and
\* nothing is written once an acknowledgement read was not 0x00 (or did not
\* come)
AckDiscipline ==
    Sending =>
        \A i \in 1..Len(wire) :
            /\ NeedsAck(wire[i]) =>
                  IF i = Len(wire) THEN pc = "recv_confirm"
                  ELSE /\ wire[i + 1].kind = "ack"
                       /\ wire[i + 1].op \in {"recv", "timeout"}
                       /\ Len(wire[i + 1].data) <= 1
            /\ wire[i].kind = "ack" => i > 1 /\ NeedsAck(wire[i - 1])
            /\ wire[i].op = "send" =>
                  \A j \in 1..(i - 1) : wire[j].kind = "ack" => wire[j] = GoodAck

\* a put or putfo that sent a whole file and was refused at its terminator
AckDisciplineSeen ==
    /\ Sending
    /\ pc = "returned"
    /\ Len(wire) >= 6
    /\ wire[Len(wire) - 1] = Wrote("nul", <<NUL>>)
    /\ wire[Len(wire)] = Read("ack", <<SOH>>)
    /\ outcome.kind = "SCPException"

\* C2: when put, putfo or getfo returns or raises, every channel the client
\* opened is closed
ChannelClosedOnExit ==
    pc = "returned" => \A c \in 1..Len(chans) : chans[c].closed

\* C3: an acknowledgement that begins with 0x01 fails the operation with an
\* SCPException whose message is what the peer sent after the flag, up to the
\* end of the line
ErrorLine(out) == SubSeq(out, 2, IndexOf(out, LF) - 1)
ErrorAckMessage ==
    (Sending /\ pc = "returned" /\ wire[Len(wire)] = Read("ack", <<SOH>>)) =>
        outcome = [kind |-> "SCPException", msg |-> ErrorLine(AckError.out)]

\* C4: in a recursive put the push counter is never negative, and when the
\* walk of a root is over it is 0 and as many D records as E records were
\* acknowledged
CountAcked(kind) ==
    Cardinality({i \in 1..(Len(wire) - 1) :
                    wire[i].op = "send" /\ wire[i].kind = kind /\ wire[i + 1] = GoodAck})
PushPopBalance ==
    /\ pushed >= 0
    /\ pc = "send_recursive_next" => pushed = 0 /\ CountAcked("D") = CountAcked("E")

\* C5: on the receive side the depth is never negative, a D record raises it
\* by one, an E record lowers it by one, nothing else changes it during a
\* getfo, and an E record at depth 0 raises nothing and leaves the depth and
\* the receive directory as they are
DepthStep ==
    /\ depth' >= 0
    /\ pc # "idle" =>
          \/ depth' = depth
          \/ pc = "recv_pushd" /\ depth' = depth + 1
          \/ pc = "recv_popd" /\ depth' = depth - 1
    /\ (pc = "recv_pushd" /\ pc' # "returned") => depth' = depth + 1
    /\ (pc = "recv_popd" /\ depth > 0) => depth' = depth - 1
    /\ (pc = "recv_popd" /\ depth = 0) =>
          depth' = 0 /\ recv_dir' = recv_dir /\ pc' = "recv_all" /\ outcome' = outcome
DepthSteps == [][DepthStep]_vars

\* a getfo whose first record was an E, handled
PopAtDepthZeroSeen ==
    /\ pc = "recv_all"
    /\ rcv.nrecs = 1
    /\ Len(wire) = 2
    /\ wire[2] = Read("cmd", PeerPop.line)
    /\ depth = 0
    /\ outcome.kind = "running"

\* C6: a file getfo returns has the name, the mode and the bytes the peer
\* sent, and its path is the names of the directories the peer had pushed
\* and not popped when it sent the file, in order, and then the name
ReturnedFileMatches ==
    (pc = "recv_all" /\ wire # <<>> /\ wire[Len(wire)].op = "recv"
        /\ wire[Len(wire)].kind = "status") =>
        /\ files # <<>>
        /\ files[Len(files)].name = peer.file.name
        /\ files[Len(files)].mode = peer.file.mode
        /\ files[Len(files)].data = peer.file.data
        /\ files[Len(files)].path = JoinAll(<<>>, Append(peer.file.dirs, peer.file.name))

\* C7: in put no T record is written unless preserve_times was asked for;
\* when it was, every C and D record written comes right after the T record
\* with the times of its file or directory and that record's acknowledgement,
\* and what is written next after a T record is a C or D record
TimeLineOf(kind) ==
    IF kind = "D"
    THEN TimeLine(DirEntry(<<>>).mtime, DirEntry(<<>>).atime)
    ELSE TimeLine(FileEntry(<<>>, "str", 0, 0).mtime, FileEntry(<<>>, "str", 0, 0).atime)
TimeBeforeHeader ==
    Putting =>
        \A i \in 1..Len(wire) :
            /\ (wire[i].op = "send" /\ wire[i].kind \in {"C", "D"} /\ args.preserve_times) =>
                  /\ i > 2
                  /\ wire[i - 2] = Wrote("T", TimeLineOf(wire[i].kind))
                  /\ wire[i - 1] = GoodAck
            /\ (wire[i].op = "send" /\ wire[i].kind = "T") =>
                  /\ args.preserve_times
                  /\ i + 2 <= Len(wire) =>
                        wire[i + 2].op = "send" /\ wire[i + 2].kind \in {"C", "D"}

\* a recursive put with preserve_times that pushed a directory
TimeBeforeHeaderSeen ==
    /\ Putting
    /\ args.preserve_times
    /\ \E i \in 1..Len(wire) :
          /\ i + 3 <= Len(wire)
          /\ wire[i].op = "send" /\ wire[i].kind = "T"
          /\ wire[i + 2].op = "send" /\ wire[i + 2].kind = "D"
          /\ wire[i + 3] = GoodAck

\* C8: the mode field of every C and D record put writes is four octal digits
ModeFieldFourDigits ==
    Putting =>
        \A i \in 1..Len(wire) :
            (wire[i].op = "send" /\ wire[i].kind \in {"C", "D"}) =>
                LET mode == HeaderFields(wire[i].data)[1]
                IN  Len(mode) = 4 /\ \A k \in 1..Len(mode) : IsDigitIn(mode[k], 8)

\* C9: with a progress callback, a zero-byte file has exactly one progress
\* call, with total 1 and transferred 1, in a put or putfo and in a getfo
IsZeroHeader(line) ==
    LET f == HeaderFields(line) IN Len(f) >= 2 /\ f[2] = <<"0">>
\* the progress calls made after the C record at position i of wire and
\* before the next one
CallsFor(i) ==
    {k \in 1..Len(prog) :
        /\ prog[k].at > i
        /\ \A j \in (i + 1)..prog[k].at : ~(wire[j].op = "send" /\ wire[j].kind = "C")}
ZeroByteProgress ==
    has_progress =>
        /\ Sending =>
              \A i \in 1..Len(wire) :
                  (wire[i].op = "send" /\ wire[i].kind = "C" /\ IsZeroHeader(wire[i].data)) =>
                      /\ \A k \in CallsFor(i) : prog[k].total = 1 /\ prog[k].done = 1
                      /\ Cardinality(CallsFor(i)) <= 1
                      /\ (/\ i < Len(wire)
                          /\ wire[i + 1] = GoodAck
                          /\ ~(pc = "send_body_start" /\ i + 1 = Len(wire))) =>
                            Cardinality(CallsFor(i)) = 1
        /\ (/\ Len(wire) >= 2
            /\ wire[1] = Wrote("ready", <<NUL>>)
            /\ wire[2] = Read("cmd", PeerFile(<<"x">>, 0).line)) =>
              IF pc = "recv_file" THEN prog = <<>>
              ELSE /\ Len(prog) = 1
                   /\ prog[1].name = <<"x">>
                   /\ prog[1].total = 1
                   /\ prog[1].done = 1

\* a put of a zero-byte file that went through, with its one progress call
ZeroByteProgressSeen ==
    /\ Putting
    /\ pc = "returned"
    /\ outcome.kind = "ok"
    /\ Len(prog) = 1
    /\ prog[1].total = 1
    /\ prog[1].done = 1
    /\ \E i \in 1..Len(wire) : wire[i].kind = "C" /\ IsZeroHeader(wire[i].data)

\* C10: the command put issues has -r exactly when recursive was asked for
\* and -p exactly when preserve_times was, and ends with -t and the
\* sanitized remote path
PutCommandFlags ==
    Putting =>
        LET cmd == wire[1].data
            tail == <<" ", "-", "t", " ">> \o ShQuote(args.remote_path)
            flags == SubSeq(cmd, 1, Len(cmd) - Len(tail))
        IN  /\ StartsWith(cmd, SCP_COMMAND)
            /\ Len(cmd) >= Len(tail)
            /\ SubSeq(cmd, Len(cmd) - Len(tail) + 1, Len(cmd)) = tail
            /\ Contains(flags, <<" ", "-", "r">>) <=> args.recursive
            /\ Contains(flags, <<" ", "-", "p">>) <=> args.preserve_times

\* C11: a read that times out, in put, putfo or getfo, fails the operation
\* with an SCPException
TimeoutIsScpException ==
    (pc = "returned" /\ wire # <<>> /\ wire[Len(wire)].op = "timeout") =>
        outcome.kind = "SCPException"

\* C12: over a sequence of put, putfo and getfo calls on one client no
\* channel has a command executed on it more than once
OneCommandPerChannel == \A c \in 1..Len(chans) : chans[c].execs <= 1

\* C13: when a getfo has issued its command and is about to receive, the
\* depth is 0, the receive directory is empty, no timestamp is pending and
\* the file list is empty, whatever went before on the client
GetfoStarts == wire # <<>> /\ wire[1].op = "exec" /\ wire[1].kind = "getfo"
GetfoStartsClean ==
    GetfoStarts => depth = 0 /\ recv_dir = <<>> /\ utime = <<>> /\ files = <<>>

\* C14: a record with valid fields, written as the send side writes it and
\* parsed by the receive side's handler for its tag, comes back with the
\* same fields: mtime and atime for T, mode, size and name for C, mode and
\* name for D
RoundTrip ==
    (args.op = "record" /\ pc # "decode") =>
        /\ pc = "decoded"
        /\ args.tag = "T" => utime = <<args.atime, args.mtime>>
        /\ args.tag = "C" =>
              rcv.mode = args.mode /\ rcv.size = args.size /\ rcv.name = args.name
        /\ args.tag = "D" => rcv.mode = args.mode /\ rcv.name = args.name

\* C15: the receive loop of getfo is left only on a closed channel or an
\* empty read; when the peer ends the stream at a record boundary, after
\* complete records only, getfo returns normally, in the end, with the files
\* the peer sent, in the order it sent them
EndedAtBoundary ==
    /\ wire # <<>>
    /\ wire[Len(wire)] = Read("cmd", <<>>)
    /\ \A i \in 1..Len(peer.done) : peer.done[i].status = <<NUL>>
FilesAsSent ==
    /\ Len(files) = Len(peer.done)
    /\ \A i \in 1..Len(files) :
          files[i].name = peer.done[i].name /\ files[i].data = peer.done[i].data
LoopEndsSafely ==
    /\ pc = "getfo_close" =>
          chans[channel].closed \/ wire[Len(wire)] = Read("cmd", <<>>)
    /\ EndedAtBoundary =>
          /\ pc \in {"getfo_close", "returned"}
          /\ pc = "returned" => outcome.kind = "ok"
          /\ FilesAsSent
RECURSIVE WireDirs(_)
\* the directory names written in D records and not yet left by an E record
WireDirs(w) ==
    IF w = <<>> THEN <<>>
    ELSE LET e == w[Len(w)]
             before == WireDirs(SubSeq(w, 1, Len(w) - 1))
         IN  IF e.op = "send" /\ e.kind = "D" THEN Append(before, HeaderFields(e.data)[3])
             ELSE IF e.op = "send" /\ e.kind = "E" /\ before # <<>>
             THEN SubSeq(before, 1, Len(before) - 1)
             ELSE before

\* the names a path is made of
Segments(path) ==
    LET parts == SplitMax(path, SEP, Len(path))
    IN  SelectSeq(parts, LAMBDA x : x # <<>>)

\* the directory of the walk whose files _send_recursive is about to send
WalkedDir == args.files[snd.baseIdx].walk[snd.walkIdx].root

\* C16: in a recursive put of a directory, whenever the files of a directory
\* of the walk are about to be sent, the names written in D records and not
\* yet popped by E records are the names of the path from the directory
\* given to put down to that directory
PushedDirsArePath ==
    (Putting /\ pc = "walk_files") => WireDirs(wire) = Segments(WalkedDir)

RECURSIVE BodyLen(_)
\* the number of body bytes written in a stretch of the channel traffic
BodyLen(w) ==
    IF w = <<>> THEN 0
    ELSE (IF Head(w).op = "send" /\ Head(w).kind = "body" THEN Len(Head(w).data) ELSE 0)
         + BodyLen(Tail(w))

\* the position in wire of the C record written last
LastHeader ==
    CHOOSE i \in 1..Len(wire) :
        /\ wire[i].op = "send" /\ wire[i].kind = "C"
        /\ \A j \in (i + 1)..Len(wire) : ~(wire[j].op = "send" /\ wire[j].kind = "C")

\* C17: when put or putfo writes the 0x00 that ends a file's body, the body
\* bytes written since the file's C record are as many as the size the C
\* record declares
BodyMatchesHeader ==
    (Sending /\ wire[Len(wire)] = Wrote("nul", <<NUL>>)) =>
        FormatDec(BodyLen(SubSeq(wire, LastHeader, Len(wire))))
            = HeaderFields(wire[LastHeader].data)[2]

\* C18: the body loop of a send ends: a put or putfo that is in the loop
\* leaves it, by writing the terminator or by an error (stated for clients
\* without a progress callback, where a turn of the loop does nothing but
\* read and write)
SendBodyEnds == (pc = "send_body" /\ ~has_progress) ~> (pc # "send_body")

\* the step appends a file to self._files
FileAppended == Len(files') > Len(files)

\* C19: getfo appends a file only when it has read exactly the declared
\* number of body bytes and the read after the body returned the status
\* byte 0x00
AppendStep ==
    FileAppended =>
        /\ Len(rcv.data) = rcv.size
        /\ wire'[Len(wire')] = Read("status", <<NUL>>)
AppendAfterStatus == [][AppendStep]_vars

\* the step ends the handler of a record: it returns to the receive loop
Handled(handler) == pc = handler /\ pc' = "recv_all"

\* the time a T line carries, read as _send_time writes it
TimeOfLine(line) ==
    CHOOSE t \in (0..MaxTime) \X (0..MaxTime) : line = TimeLine(t[2], t[1])

\* C20: within a getfo the client holds no time or one time; a T record puts
\* its own time in place of whatever was held; the time held changes in no
\* other way than by a T record or by the C or D record processed next, which
\* takes it (the file appended, the directory noted, carries the time that
\* was held) and leaves none held
PendingTimeStep ==
    /\ utime = <<>> \/ utime \in (0..MaxTime) \X (0..MaxTime)
    /\ Handled("set_time") => utime' = TimeOfLine(wire[2].data)
    /\ FileAppended => files'[Len(files')].utime = utime /\ utime' = <<>>
    /\ Handled("recv_pushd") => dirtimes'.utime = utime /\ utime' = <<>>
    /\ utime' # utime =>
          Handled("set_time") \/ FileAppended \/ Handled("recv_pushd")
PendingTimestamp == [][PendingTimeStep]_vars

\* within one getfo a T record replaced the time of the T record before it,
\* and the file that came next was appended with the later time
PendingTimestampSeen ==
    /\ nops = 1
    /\ pc = "recv_all"
    /\ rcv.nrecs = 2
    /\ utime = <<>>
    /\ Len(files) = 1
    /\ files[1].utime = <<21, 11>>

====
